---- MODULE Spec2Model ----
(***************************************************************************)
(* Finite Markov reward / decision processes built from tabular inputs:    *)
(* MRP (process/mrp.py) and MDP (process/mdp.py).                          *)
(*                                                                         *)
(* Python floats are modelled as exact rationals <<num, den>> (den > 0,    *)
(* lowest terms).  All probabilities, rewards and discounts of the inputs  *)
(* enumerated here are dyadic, so their float sums and products are exact; *)
(* round(x, 5) is modelled by Round5, and the quotients of the linear      *)
(* solve are exact here where floats are within rounding error.            *)
(*                                                                         *)
(* The inputs enumerated are well formed: one encoding throughout, rows    *)
(* that list destinations of positive probability summing to 1.            *)
(*                                                                         *)
(* A Python dict is a record [ord |-> sequence of keys in insertion order, *)
(* map |-> function from the keys].  The inner destination maps are plain  *)
(* functions, read in ascending order of their keys where order matters.   *)
(***************************************************************************)
EXTENDS Integers, Sequences, FiniteSets, TLC

\* ------------------------------------------------------------ bounds
\* largest reward of an input entry (rewards are 0..MaxReward)
MaxReward == 1
\* most iterations of the sampler's while loop that are followed
MaxSteps == 3
\* most (state, action) keys of an MDP input
MaxKeys == 2
\* states that may be declared as source keys, and states that may be named
\* as destinations (DestStates \ SourceStates can only be implicit)
SourceStates == {1, 2}
DestStates == {1, 2, 3}
Actions == {"a", "b"}

\* ------------------------------------------------------------ rationals
Abs(n) == IF n < 0 THEN -n ELSE n

RECURSIVE Gcd(_, _)
Gcd(a, b) == IF b = 0 THEN a ELSE Gcd(b, a % b)

Norm(n, d) ==
    LET s == IF d < 0 THEN -1 ELSE 1
        g == Gcd(Abs(n), Abs(d))
    IN  IF n = 0 THEN <<0, 1>> ELSE <<(s * n) \div g, (s * d) \div g>>

Zero == <<0, 1>>
One == <<1, 1>>
Int2R(n) == <<n, 1>>
RAdd(x, y) == Norm(x[1] * y[2] + y[1] * x[2], x[2] * y[2])
RSub(x, y) == Norm(x[1] * y[2] - y[1] * x[2], x[2] * y[2])
RMul(x, y) == Norm(x[1] * y[1], x[2] * y[2])
RDiv(x, y) == Norm(x[1] * y[2], x[2] * y[1])
RLe(x, y) == x[1] * y[2] <= y[1] * x[2]
RAbs(x) == <<Abs(x[1]), x[2]>>

RECURSIVE RPow(_, _)
RPow(x, n) == IF n = 0 THEN One ELSE RMul(x, RPow(x, n - 1))

\* sum of f[k] over the finite set S
RECURSIVE RSum(_, _)
RSum(f, S) ==
    IF S = {} THEN Zero
    ELSE LET k == CHOOSE k \in S : TRUE
         IN  RAdd(f[k], RSum(f, S \ {k}))

\* ------------------------------------------------------------ dicts
EmptyDict == [ord |-> <<>>, map |-> <<>>]
Range(seq) == {seq[i] : i \in 1..Len(seq)}
Keys(d) == Range(d.ord)
HasKey(d, k) == k \in Keys(d)
\* dict.update({k: v}): a new key goes last, an old key keeps its place
Update(d, k, v) ==
    [ord |-> IF HasKey(d, k) THEN d.ord ELSE Append(d.ord, k),
     map |-> [x \in Keys(d) \cup {k} |-> IF x = k THEN v ELSE d.map[x]]]
\* dict.values(), in insertion order
Values(d) == [i \in 1..Len(d.ord) |-> d.map[d.ord[i]]]

\* list filter keeping order
RECURSIVE Filter(_, _)
Filter(seq, S) ==
    IF seq = <<>> THEN <<>>
    ELSE IF Head(seq) \in S THEN <<Head(seq)>> \o Filter(Tail(seq), S)
         ELSE Filter(Tail(seq), S)

\* ------------------------------------------------------------ inputs
None == "None"
\* None where a state is expected (states are positive)
NoState == 0
\* probabilities and discounts an input may use (dyadic: exact as floats)
ProbValues == {<<1, 2>>, <<1, 1>>}
Gammas == {<<1, 2>>, <<1, 1>>}
Rewards == {Int2R(r) : r \in 0..MaxReward}

\* destination -> probability maps whose probabilities sum to 1
ProbRows ==
    UNION {{f \in [D -> ProbValues] : RSum(f, D) = One} :
           D \in SUBSET DestStates \ {{}}}

\* {s': (p, r)}: the value of a key in the fine-grained encoding
FineRow(f, r) == [kind |-> "dict", ent |-> [d \in DOMAIN f |-> <<f[d], r[d]>>]]
\* ({s': p}, r): the value of a key in the shared-reward encoding
SharedRow(f, r) == [kind |-> "tuple", P |-> f, r |-> r]

FineRows == {FineRow(f, r) : <<f, r>> \in
                UNION {{<<f, r>> : r \in [DOMAIN f -> Rewards]} : f \in ProbRows}}
SharedRows == {SharedRow(f, r) : f \in ProbRows, r \in Rewards}

\* sequences of n distinct elements of S
RECURSIVE Orders(_, _)
Orders(S, n) ==
    IF n = 0 THEN {<<>>}
    ELSE UNION {{<<x>> \o t : t \in Orders(S \ {x}, n - 1)} : x \in S}

\* the row a key holds, in either encoding, as destination -> probability
RowProb(v) == IF v.kind = "dict" THEN [d \in DOMAIN v.ent |-> v.ent[d][1]] ELSE v.P
RowDests(v) == DOMAIN RowProb(v)

MrpInputs(rows) ==
    UNION {{[ord |-> o, map |-> m] : m \in [Range(o) -> rows]} :
           o \in UNION {Orders(SourceStates, n) : n \in 1..Cardinality(SourceStates)}}

SAKeys == SourceStates \X Actions
\* the reward the enumerated MDP inputs give the key (s, a)
MdpRewardOf(sa) == Int2R(IF sa[2] = "a" THEN sa[1] ELSE 0)
MdpOrders == UNION {Orders(SAKeys, n) : n \in 1..MaxKeys}
MdpSharedInputs ==
    UNION {{[ord |-> o, map |-> [k \in Range(o) |-> SharedRow(m[k], MdpRewardOf(k))]] :
            m \in [Range(o) -> ProbRows]} : o \in MdpOrders}
MdpFineInputs ==
    UNION {{[ord |-> o, map |-> [k \in Range(o) |->
                FineRow(m[k], [d \in DOMAIN m[k] |-> MdpRewardOf(k)])]] :
            m \in [Range(o) -> ProbRows]} : o \in MdpOrders}

\* ------------------------------------------------------------ MRP
\* MRP.input_type / MDP.input_type: the type of the first key's value
input_type(in) == in.map[in.ord[1]].kind = "dict"

\* probability the row of s records for s -> s, as each branch reads it
MrpSelfIsOne(in, ti, s) ==
    LET v == in.map[s]
    IN  IF ti THEN s \in DOMAIN v.ent /\ v.ent[s][1] = One
        ELSE (IF s \in DOMAIN v.P THEN v.P[s] ELSE Zero) = One

\* MRP._categorize_states: <<terminal_states, non_terminal_states>>
MrpCategorize(in, ti) ==
    LET T == {s \in Keys(in) : MrpSelfIsOne(in, ti, s)}
    IN  <<Filter(in.ord, T), Filter(in.ord, Keys(in) \ T)>>

\* the reward row the shared-reward branch builds: one entry per key of the
\* input (for s2 in mrp_input), each the source's reward
MrpSharedRewardRow(in, s1) == [s2 \in Keys(in) |-> in.map[s1].r]

\* MRP._assign_transition_matrix: <<state_transition_matrix, reward_matrix>>
MrpTransitionRow(in, ti, s1) ==
    IF ti THEN [s2 \in DOMAIN in.map[s1].ent |-> in.map[s1].ent[s2][1]]
    ELSE in.map[s1].P
MrpRewardRow(in, ti, s1) ==
    IF ti THEN [s2 \in DOMAIN in.map[s1].ent |-> in.map[s1].ent[s2][2]]
    ELSE MrpSharedRewardRow(in, s1)
MrpAssignTransitionMatrix(in, ti, nts) ==
    <<[ord |-> nts, map |-> [s1 \in Range(nts) |-> MrpTransitionRow(in, ti, s1)]],
      [ord |-> nts, map |-> [s1 \in Range(nts) |-> MrpRewardRow(in, ti, s1)]]>>

\* round(x, 5): to the nearest multiple of 10^-5, ties to the even one
RoundDigits == 5
RECURSIVE Pow10(_)
Pow10(n) == IF n = 0 THEN 1 ELSE 10 * Pow10(n - 1)
Round5(x) ==
    LET n == x[1] * Pow10(RoundDigits)
        q == n \div x[2]
        r == n % x[2]
        k == IF 2 * r < x[2] THEN q
             ELSE IF 2 * r > x[2] THEN q + 1
             ELSE IF q % 2 = 0 THEN q ELSE q + 1
    IN  Norm(k, Pow10(RoundDigits))

\* dict.get(k, default) on a destination map
GetOr(f, k, default) == IF k \in DOMAIN f THEN f[k] ELSE default

\* the sum the inner loop of _assign_reward_function accumulates
ExpectedReward(stm, rm, s) ==
    LET row == stm.map[s]
    IN  RSum([n \in DOMAIN row |-> RMul(GetOr(row, n, Zero), GetOr(rm.map[s], n, Zero))],
             DOMAIN row)

\* MRP._assign_reward_function
MrpAssignRewardFunction(stm, rm) ==
    [ord |-> rm.ord, map |-> [s \in Keys(rm) |-> Round5(ExpectedReward(stm, rm, s))]]

\* --- the linear solve (numpy.linalg), on matrices [1..n -> [1..n -> rational]]
Minor(M, n, i, j) ==
    [a \in 1..(n - 1) |-> [b \in 1..(n - 1) |->
        M[IF a < i THEN a ELSE a + 1][IF b < j THEN b ELSE b + 1]]]

RECURSIVE Det(_, _)
Det(M, n) ==
    IF n = 0 THEN One
    ELSE IF n = 1 THEN M[1][1]
    ELSE RSum([j \in 1..n |->
                 RMul(IF j % 2 = 1 THEN M[1][j] ELSE RSub(Zero, M[1][j]),
                      Det(Minor(M, n, 1, j), n - 1))], 1..n)

\* numpy.linalg.solve of a non-singular system (Cramer's rule)
LinSolve(M, b, n) ==
    LET d == Det(M, n)
    IN  [i \in 1..n |->
           RDiv(Det([r \in 1..n |-> [c \in 1..n |-> IF c = i THEN b[r] ELSE M[r][c]]], n), d)]

\* numpy.linalg.lstsq of a singular system: the least-squares solution of
\* least norm.  I - gamma*P over at most two non-terminal states, when
\* singular, has rank 1, and then pinv(M) = transpose(M) / (sum of squares).
LstSq(M, b, n) ==
    LET sq == RSum([k \in (1..n) \X (1..n) |-> RMul(M[k[1]][k[2]], M[k[1]][k[2]])],
                   (1..n) \X (1..n))
    IN  [i \in 1..n |-> RDiv(RSum([r \in 1..n |-> RMul(M[r][i], b[r])], 1..n), sq)]

\* PMatrix with the two indices swapped
PMatrixTransposed(stm, nts) ==
    [i \in 1..Len(nts) |-> [j \in 1..Len(nts) |-> GetOr(stm.map[nts[j]], nts[i], Zero)]]

\* the array P of _assign_value_function, indexed like non_terminal_states
PMatrix(stm, nts) ==
    [i \in 1..Len(nts) |-> [j \in 1..Len(nts) |-> GetOr(stm.map[nts[i]], nts[j], Zero)]]
\* np.eye(sz) - gamma * P
AMatrix(stm, nts, gamma) ==
    LET P == PMatrix(stm, nts)
    IN  [i \in 1..Len(nts) |-> [j \in 1..Len(nts) |->
           RSub(IF i = j THEN One ELSE Zero, RMul(gamma, P[i][j]))]]
\* R: the values of reward_function, in the dict's order
RVector(rf) == Values(rf)

Singular(stm, nts, gamma) == Det(AMatrix(stm, nts, gamma), Len(nts)) = Zero

\* V of _assign_value_function
SolveV(stm, rf, nts, gamma) ==
    LET A == AMatrix(stm, nts, gamma)
        n == Len(nts)
    IN  IF Det(A, n) # Zero THEN LinSolve(A, RVector(rf), n)
        ELSE LstSq(A, RVector(rf), n)

\* vf = dict(zip(non_terminal_states, V))
MrpAssignValueFunction(stm, rf, nts, gamma) ==
    LET V == SolveV(stm, rf, nts, gamma)
    IN  [ord |-> nts, map |-> [s \in Range(nts) |->
            V[CHOOSE i \in 1..Len(nts) : nts[i] = s]]]

\* With no non-terminal state the system is 0 x 0 and the constructor
\* raises: np.nditer(V) refuses a zero-sized array (ValueError, "Iteration of
\* zero-sized operands is not enabled"); a numpy whose linalg rejects empty
\* arrays raises LinAlgError from solve, which the handler re-raises.
ValueFunctionRaises(nts) == Len(nts) = 0
EmptySolveErrors == {"ValueError", "LinAlgError"}

\* MRP.__init__: the fields of the object, or the exception it raises
MrpNew(in, gamma) ==
    LET ti == input_type(in)
        cat == MrpCategorize(in, ti)
        tm == MrpAssignTransitionMatrix(in, ti, cat[2])
        rf == MrpAssignRewardFunction(tm[1], tm[2])
    IN  [type_indicator |-> ti,
         terminal_states |-> cat[1],
         non_terminal_states |-> cat[2],
         state_transition_matrix |-> tm[1],
         reward_matrix |-> tm[2],
         reward_function |-> rf,
         value_function |-> IF ValueFunctionRaises(cat[2]) THEN EmptyDict
                            ELSE MrpAssignValueFunction(tm[1], rf, cat[2], gamma),
         raises |-> ValueFunctionRaises(cat[2])]

\* ------------------------------------------------------------ MDP
\* a finite set of integers as a list, ascending (the order in which the
\* enumerated destination maps list their keys)
RECURSIVE Ascending(_)
Ascending(S) ==
    IF S = {} THEN <<>>
    ELSE LET m == CHOOSE x \in S : \A y \in S : x <= y
         IN  <<m>> \o Ascending(S \ {m})

\* a list without the later repeats of its elements
RECURSIVE FirstSeen(_, _)
FirstSeen(seq, seen) ==
    IF seq = <<>> THEN <<>>
    ELSE IF Head(seq) \in seen THEN FirstSeen(Tail(seq), seen)
         ELSE <<Head(seq)>> \o FirstSeen(Tail(seq), seen \cup {Head(seq)})

\* list.remove(x): without the first occurrence of x
RECURSIVE Remove(_, _)
Remove(seq, x) ==
    IF seq = <<>> THEN <<>>
    ELSE IF Head(seq) = x THEN Tail(seq) ELSE <<Head(seq)>> \o Remove(Tail(seq), x)

\* MDP._get_all_states_and_actions: <<state_list, action_list>>
MdpAllStatesAndActions(in) ==
    <<FirstSeen([i \in 1..Len(in.ord) |-> in.ord[i][1]], {}),
      FirstSeen([i \in 1..Len(in.ord) |-> in.ord[i][2]], {})>>

\* MdpNotSelfOne with only the first half of each test: a listed self-loop
\* of any probability counts as probability 1
MdpNotSelfOneListedOnly(in, ti, sa) ==
    LET v == in.map[sa]
        s == sa[1]
    IN  IF ti THEN ~(s \in DOMAIN v.ent) ELSE ~(s \in DOMAIN v.P)

\* the test that moves s out of terminal_states: the row of (s, a) does not
\* give s -> s probability 1
MdpNotSelfOne(in, ti, sa) ==
    LET v == in.map[sa]
        s == sa[1]
    IN  IF ti THEN ~(s \in DOMAIN v.ent) \/ v.ent[s][1] # One
        ELSE (IF s \in DOMAIN v.P THEN v.P[s] ELSE Zero) # One

\* MdpCategorizeStep without the `if s in terminal_states` guard
MdpCategorizeStepUnguarded(in, ti, all, acc, sa) ==
    LET dests == IF ti THEN DOMAIN in.map[sa].ent ELSE DOMAIN in.map[sa].P
        new == Ascending({s1 \in dests : s1 \notin Range(all) /\ s1 \notin Range(acc.temp)})
        move == MdpNotSelfOne(in, ti, sa)
    IN  [terminal |-> IF move THEN Remove(acc.terminal, sa[1]) ELSE acc.terminal,
         non_terminal |-> IF move THEN Append(acc.non_terminal, sa[1]) ELSE acc.non_terminal,
         temp |-> acc.temp \o new]

\* one iteration of the loop of MDP._categorize_states over the key sa
MdpCategorizeStep(in, ti, all, acc, sa) ==
    LET dests == IF ti THEN DOMAIN in.map[sa].ent ELSE DOMAIN in.map[sa].P
        new == Ascending({s1 \in dests : s1 \notin Range(all) /\ s1 \notin Range(acc.temp)})
        move == MdpNotSelfOne(in, ti, sa) /\ sa[1] \in Range(acc.terminal)
    IN  [terminal |-> IF move THEN Remove(acc.terminal, sa[1]) ELSE acc.terminal,
         non_terminal |-> IF move THEN Append(acc.non_terminal, sa[1]) ELSE acc.non_terminal,
         temp |-> acc.temp \o new]

RECURSIVE MdpCategorizeLoop(_, _, _, _, _)
MdpCategorizeLoop(in, ti, all, acc, i) ==
    IF i > Len(in.ord) THEN acc
    ELSE MdpCategorizeLoop(in, ti, all, MdpCategorizeStep(in, ti, all, acc, in.ord[i]), i + 1)

\* MDP._categorize_states: <<all_states, terminal_states, non_terminal_states>>
\* (all_states is extended in place)
MdpCategorize(in, ti, all) ==
    LET acc == MdpCategorizeLoop(in, ti, all,
                   [terminal |-> all, non_terminal |-> <<>>, temp |-> <<>>], 1)
    IN  <<all \o acc.temp, acc.terminal \o acc.temp, acc.non_terminal>>

\* one iteration of the fine-grained loop of MDP._assign_transition_matrix.
\* state_value / reward_value are locals of the function: unbound until the
\* first non-terminal key, and kept from one iteration to the next.  The two
\* update calls sit outside the `if`, so they run for every key.
MdpFineStep(in, terms, acc, sa) ==
    LET nt == sa[1] \notin Range(terms)
        sv == IF nt THEN [s2 \in DOMAIN in.map[sa].ent |-> in.map[sa].ent[s2][1]]
              ELSE acc.state_value
        rv == IF nt THEN [s2 \in DOMAIN in.map[sa].ent |-> in.map[sa].ent[s2][2]]
              ELSE acc.reward_value
        bound == acc.bound \/ nt
    IN  IF acc.raised # None THEN acc
        ELSE IF ~bound THEN [acc EXCEPT !.raised = "UnboundLocalError"]
        ELSE [stm |-> Update(acc.stm, sa, sv),
              rm |-> Update(acc.rm, sa, rv),
              state_value |-> sv, reward_value |-> rv, bound |-> bound,
              raised |-> None]

\* one iteration of the shared-reward loop
MdpSharedStep(in, terms, acc, sa) ==
    IF sa[1] \notin Range(terms)
    THEN [acc EXCEPT !.stm = Update(acc.stm, sa, in.map[sa].P),
                     !.rm = Update(acc.rm, sa, [s2 \in DOMAIN in.map[sa].P |-> in.map[sa].r])]
    ELSE acc

RECURSIVE MdpAssignLoop(_, _, _, _, _)
MdpAssignLoop(in, ti, terms, acc, i) ==
    IF i > Len(in.ord) THEN acc
    ELSE MdpAssignLoop(in, ti, terms,
                       IF ti THEN MdpFineStep(in, terms, acc, in.ord[i])
                       ELSE MdpSharedStep(in, terms, acc, in.ord[i]),
                       i + 1)

\* MDP._assign_transition_matrix: .stm, .rm and the exception raised, if any
MdpAssignTransitionMatrix(in, ti, terms) ==
    MdpAssignLoop(in, ti, terms,
                  [stm |-> EmptyDict, rm |-> EmptyDict, state_value |-> <<>>,
                   reward_value |-> <<>>, bound |-> FALSE, raised |-> None], 1)

\* MDP.__init__
MdpNew(in, gamma) ==
    LET ti == input_type(in)
        sa == MdpAllStatesAndActions(in)
        cat == MdpCategorize(in, ti, sa[1])
        tm == MdpAssignTransitionMatrix(in, ti, cat[2])
    IN  [type_indicator |-> ti,
         all_states |-> cat[1],
         all_actions |-> sa[2],
         terminal_states |-> cat[2],
         non_terminal_states |-> cat[3],
         state_transition_matrix |-> tm.stm,
         reward_matrix |-> tm.rm,
         raised |-> tm.raised]

\* ------------------------------------------------------------ state
VARIABLES
    kind,                     \* "MRP" or "MDP": the class being exercised
    input, gamma,             \* the constructor's arguments
    pc,                       \* "new", "ready", "failed", "sampling", "returned"
    raised,                   \* the exception the constructor raised, or None
    type_indicator, all_states, all_actions,
    terminal_states, non_terminal_states,
    state_transition_matrix, reward_matrix,   \* MDP: transition_matrix[0], [1]
    reward_function, value_function,
    call, result,             \* the last query and what it gave
    state, sample, g, ts      \* locals of get_random_sample

object == <<type_indicator, all_states, all_actions, terminal_states,
            non_terminal_states, state_transition_matrix, reward_matrix,
            reward_function, value_function>>
sampler == <<state, sample, g, ts>>
vars == <<kind, input, gamma, pc, raised, object, call, result, sampler>>

NoCall == [op |-> "none", args |-> <<>>]
NoResult == [tag |-> "none", val |-> <<>>]
Returned(v) == [tag |-> "value", val |-> v]
ReturnedNone == [tag |-> "None", val |-> <<>>]
Raised(e) == [tag |-> "raise", val |-> e]

Init ==
    /\ kind \in {"MRP", "MDP"}
    /\ IF kind = "MRP"
       THEN input \in MrpInputs(FineRows) \cup MrpInputs(SharedRows) /\ gamma \in Gammas
       ELSE input \in MdpFineInputs \cup MdpSharedInputs /\ gamma = One
    /\ pc = "new"
    /\ raised = None
    /\ type_indicator = FALSE
    /\ all_states = <<>> /\ all_actions = <<>>
    /\ terminal_states = <<>> /\ non_terminal_states = <<>>
    /\ state_transition_matrix = EmptyDict /\ reward_matrix = EmptyDict
    /\ reward_function = EmptyDict /\ value_function = EmptyDict
    /\ call = NoCall /\ result = NoResult
    /\ state = NoState /\ sample = <<>> /\ g = Zero /\ ts = 0

\* MRP(mrp_input, discount_factor)
NewMRP ==
    /\ pc = "new" /\ kind = "MRP"
    /\ LET o == MrpNew(input, gamma)
       IN  /\ type_indicator' = o.type_indicator
           /\ terminal_states' = o.terminal_states
           /\ non_terminal_states' = o.non_terminal_states
           /\ state_transition_matrix' = o.state_transition_matrix
           /\ reward_matrix' = o.reward_matrix
           /\ reward_function' = o.reward_function
           /\ value_function' = o.value_function
           /\ raised' \in (IF o.raises THEN EmptySolveErrors ELSE {None})
           /\ pc' = IF o.raises THEN "failed" ELSE "ready"
    /\ UNCHANGED <<kind, input, gamma, all_states, all_actions, call, result, sampler>>

\* MDP(mdp_input, discount_factor)
NewMDP ==
    /\ pc = "new" /\ kind = "MDP"
    /\ LET o == MdpNew(input, gamma)
       IN  /\ type_indicator' = o.type_indicator
           /\ all_states' = o.all_states
           /\ all_actions' = o.all_actions
           /\ terminal_states' = o.terminal_states
           /\ non_terminal_states' = o.non_terminal_states
           /\ state_transition_matrix' = o.state_transition_matrix
           /\ reward_matrix' = o.reward_matrix
           /\ raised' = o.raised
           /\ pc' = IF o.raised = None THEN "ready" ELSE "failed"
    /\ UNCHANGED <<kind, input, gamma, reward_function, value_function, call, result,
                   sampler>>

\* dict.get(k) on an ordered dict: the value, or None
Get(d, k) == IF HasKey(d, k) THEN Returned(d.map[k]) ELSE ReturnedNone

\* The methods are synchronous: a call is made once the previous call has
\* returned and the caller has taken its result (Idle).
Idle == pc = "ready" /\ call = NoCall

\* the caller is done with the last call's result
TakeResult ==
    /\ pc = "ready" /\ call # NoCall
    /\ call' = NoCall /\ result' = NoResult
    /\ UNCHANGED <<kind, input, gamma, pc, raised, object, sampler>>

Query(op, args, res) ==
    /\ Idle
    /\ call' = [op |-> op, args |-> args]
    /\ result' = res
    /\ UNCHANGED <<kind, input, gamma, pc, raised, object, sampler>>

\* MRP.get_expected_reward
GetExpectedRewardResult(s) == Get(reward_function, s)
GetExpectedReward(s) ==
    kind = "MRP" /\ Query("get_expected_reward", <<s>>, GetExpectedRewardResult(s))

\* MRP.get_state_transition_reward: .get(next_state, 0.0) of what
\* reward_matrix.get(current_state) gave, which is None for an unknown state
GetStateTransitionRewardResult(s, s1) ==
    IF HasKey(reward_matrix, s) THEN Returned(GetOr(reward_matrix.map[s], s1, Zero))
    ELSE Raised("AttributeError")
GetStateTransitionReward(s, s1) ==
    kind = "MRP" /\ Query("get_state_transition_reward", <<s, s1>>,
                          GetStateTransitionRewardResult(s, s1))

\* MRP.get_value
GetValueResult(s) == Get(value_function, s)
GetValue(s) == kind = "MRP" /\ Query("get_value", <<s>>, GetValueResult(s))

\* MDP.query_Pr: .get(s1) of what transition_matrix[0].get((s, a)) gave
QueryPrResult(s, a, s1) ==
    IF HasKey(state_transition_matrix, <<s, a>>)
    THEN (IF s1 \in DOMAIN state_transition_matrix.map[<<s, a>>]
          THEN Returned(state_transition_matrix.map[<<s, a>>][s1]) ELSE ReturnedNone)
    ELSE Raised("AttributeError")
QueryPr(s, a, s1) == kind = "MDP" /\ Query("query_Pr", <<s, a, s1>>, QueryPrResult(s, a, s1))

\* MDP.query_R (a given)
QueryRResult(s, a) == Get(reward_matrix, <<s, a>>)
QueryR(s, a) == kind = "MDP" /\ Query("query_R", <<s, a>>, QueryRResult(s, a))
\* MDP.query_R with a = None: the first known action stands in
QueryRDefault(s) ==
    kind = "MDP" /\ Query("query_R", <<s, None>>, QueryRResult(s, all_actions[1]))

\* MDP.query_successor: the states of all_states among the keys of what
\* transition_matrix[0].get((s, a)) gave (all_states is never empty)
QuerySuccessorResult(s, a) ==
    IF HasKey(state_transition_matrix, <<s, a>>)
    THEN Returned(Filter(all_states, DOMAIN state_transition_matrix.map[<<s, a>>]))
    ELSE Raised("AttributeError")
QuerySuccessor(s, a) ==
    kind = "MDP" /\ Query("query_successor", <<s, a>>, QuerySuccessorResult(s, a))

\* Policy.get_state_action_probability for the policies tried: "uniform" over
\* all_actions, or "first": the first action with certainty
Policies == {"uniform", "first"}
PolicyProb(policy, s, a) ==
    IF policy = "uniform" THEN <<1, Len(all_actions)>>
    ELSE IF a = all_actions[1] THEN One ELSE Zero

\* MDP.get_mrp: both matrices are subscripted with the triple (s, a, s1),
\* which raises KeyError unless the triple is a key
GetMrpSubscripts == {<<s, a, s1>> : s \in Range(all_states), a \in Range(all_actions),
                                    s1 \in Range(all_states)}
GetMrpSum(policy, M, s, s1) ==
    RSum([a \in Range(all_actions) |-> RMul(M.map[<<s, a, s1>>], PolicyProb(policy, s, a))],
         Range(all_actions))
GetMrpResult(policy) ==
    IF \E k \in GetMrpSubscripts : ~HasKey(state_transition_matrix, k) \/ ~HasKey(reward_matrix, k)
    THEN Raised("KeyError")
    ELSE Returned(<<[k \in Range(all_states) \X Range(all_states) |->
                       GetMrpSum(policy, state_transition_matrix, k[1], k[2])],
                    [k \in Range(all_states) \X Range(all_states) |->
                       GetMrpSum(policy, reward_matrix, k[1], k[2])]>>)
GetMrp(policy) == kind = "MDP" /\ Query("get_mrp", <<policy>>, GetMrpResult(policy))

\* --- MRP.get_random_sample, one loop iteration at a time
SampleBeginAt(s0, arg) ==
    /\ Idle /\ kind = "MRP"
    /\ call' = [op |-> "get_random_sample", args |-> <<arg>>]
    /\ result' = NoResult
    /\ state' = s0 /\ sample' = <<>> /\ g' = Zero /\ ts' = 0
    /\ pc' = "sampling"
    /\ UNCHANGED <<kind, input, gamma, raised, object>>

\* initial_state given
SampleBegin(s0) == SampleBeginAt(s0, s0)
\* initial_state None: random.choice(non_terminal_states + terminal_states)
SampleBeginRandom ==
    \E s0 \in Range(non_terminal_states \o terminal_states) : SampleBeginAt(s0, NoState)

\* the states np.random.choice(next_state_lst, p=pr_list) can give (the
\* rows of the inputs sum to 1, so the call does not reject pr_list; the
\* numpy scalar it returns equals the integer state it stands for)
Draws(s) == {s1 \in DOMAIN state_transition_matrix.map[s] :
                state_transition_matrix.map[s][s1] # Zero}

\* Discounted with ts incremented before it is used
DiscountedLate(t, r) == RMul(RPow(gamma, t + 1), r)

\* self.gamma ** ts * self.get_expected_reward(state)
Discounted(t, r) == RMul(RPow(gamma, t), r)

\* one iteration of the while loop
SampleLoop ==
    /\ pc = "sampling"
    /\ state \in Range(non_terminal_states)
    /\ ts < MaxSteps
    /\ sample' = Append(sample, state)
    /\ g' = RAdd(g, Discounted(ts, reward_function.map[state]))
    /\ ts' = ts + 1
    /\ state' \in Draws(state)
    /\ UNCHANGED <<kind, input, gamma, pc, raised, object, call, result>>

\* the loop's exit: sample.append(state); return sample, g
SampleReturn ==
    /\ pc = "sampling"
    /\ state \notin Range(non_terminal_states)
    /\ result' = Returned(<<Append(sample, state), g>>)
    /\ pc' = "ready"
    /\ state' = NoState /\ sample' = <<>> /\ g' = Zero /\ ts' = 0
    /\ UNCHANGED <<kind, input, gamma, raised, object, call>>

Next ==
    \/ NewMRP
    \/ NewMDP
    \/ \E s \in DestStates : GetExpectedReward(s)
    \/ \E s \in DestStates, s1 \in DestStates : GetStateTransitionReward(s, s1)
    \/ \E s \in DestStates : GetValue(s)
    \/ \E s \in DestStates, a \in Actions, s1 \in DestStates : QueryPr(s, a, s1)
    \/ \E s \in DestStates, a \in Actions : QueryR(s, a)
    \/ \E s \in DestStates : QueryRDefault(s)
    \/ \E s \in DestStates, a \in Actions : QuerySuccessor(s, a)
    \/ \E policy \in Policies : GetMrp(policy)
    \/ \E s0 \in DestStates : SampleBegin(s0)
    \/ SampleBeginRandom
    \/ SampleLoop
    \/ SampleReturn
    \/ TakeResult

Spec == Init /\ [][Next]_vars

\* ============================================================ properties
\* --- vocabulary of the claims, read off the raw input
Constructed == pc \in {"ready", "sampling"}
NoDuplicates(seq) == \A i, j \in 1..Len(seq) : seq[i] = seq[j] => i = j
Last(seq) == seq[Len(seq)]

\* the probability the raw input records for key -> d (0 when not listed)
InputProb(k, d) == GetOr(RowProb(input.map[k]), d, Zero)
\* declared source states, and every state named as a destination
DeclaredStates == IF kind = "MRP" THEN Keys(input) ELSE {k[1] : k \in Keys(input)}
Destinations == UNION {RowDests(input.map[k]) : k \in Keys(input)}
ImplicitStates == Destinations \ DeclaredStates
ProcessStates == DeclaredStates \cup Destinations
KeySource(k) == IF kind = "MRP" THEN k ELSE k[1]

\* C1 (as stated): a declared state of an MDP is terminal iff SOME action's
\* row gives it self-transition probability exactly 1.
C1_TerminalIffSomeAction ==
    (kind = "MDP" /\ Constructed) =>
        \A s \in DeclaredStates :
            s \in Range(terminal_states)
                <=> \E k \in Keys(input) : k[1] = s /\ InputProb(k, s) = One

\* C1 (amended): a declared state of an MDP is terminal iff EVERY action
\* declared for it gives it self-transition probability exactly 1; one
\* action that leads elsewhere makes it non-terminal.
C1_TerminalIffEveryAction ==
    (kind = "MDP" /\ Constructed) =>
        \A s \in DeclaredStates :
            s \in Range(terminal_states)
                <=> \A k \in Keys(input) : k[1] = s => InputProb(k, s) = One

\* a constructed MDP with a state that one action keeps in place with
\* probability 1 and another action moves: it is non-terminal
C1_Witness ==
    /\ kind = "MDP" /\ Constructed
    /\ \E k1, k2 \in Keys(input) :
          /\ k1 # k2 /\ k1[1] = k2[1]
          /\ InputProb(k1, k1[1]) = One /\ InputProb(k2, k2[1]) # One
          /\ k1[1] \in Range(non_terminal_states)
          /\ Range(terminal_states) # {}

\* C2: once an MDP is constructed, construction has raised nothing and no
\* key of either stored matrix has a terminal state as its source.
C2_NoTerminalSourceKey ==
    (kind = "MDP" /\ pc # "new") =>
        /\ raised = None
        /\ \A k \in Keys(state_transition_matrix) \cup Keys(reward_matrix) :
              KeySource(k) \notin Range(terminal_states)

\* the fine-grained encoding of an input given in the shared-reward one
FineEncoding(in) ==
    [ord |-> in.ord,
     map |-> [k \in Keys(in) |-> FineRow(in.map[k].P, [d \in DOMAIN in.map[k].P |-> in.map[k].r])]]

\* C3: an MRP built from a shared-reward input has the same transition
\* matrix, reward matrix and value function as the MRP built from the
\* fine-grained encoding of the same process.
C3_EncodingsAgree ==
    (kind = "MRP" /\ Constructed /\ ~type_indicator) =>
        LET o == MrpNew(FineEncoding(input), gamma)
        IN  /\ ~o.raises
            /\ o.state_transition_matrix = state_transition_matrix
            /\ o.reward_matrix = reward_matrix
            /\ o.value_function = value_function

\* P(s, a, s') / R(s, a, s') of a constructed MDP: the stored entry, 0 if none
StoredEntry(M, s, a, s1) ==
    IF HasKey(M, <<s, a>>) THEN GetOr(M.map[<<s, a>>], s1, Zero) ELSE Zero
PolicyWeighted(policy, M) ==
    [k \in Range(all_states) \X Range(all_states) |->
        RSum([a \in Range(all_actions) |->
                 RMul(StoredEntry(M, k[1], a, k[2]), PolicyProb(policy, k[1], a))],
             Range(all_actions))]

\* C4: get_mrp(policy) returns the pair of policy-weighted matrices over
\* all_states x all_states; it does not fail.
C4_GetMrpReturnsWeightedSums ==
    (kind = "MDP" /\ call.op = "get_mrp") =>
        /\ result.tag = "value"
        /\ result.val = <<PolicyWeighted(call.args[1], state_transition_matrix),
                          PolicyWeighted(call.args[1], reward_matrix)>>

\* the query just made named a state (or state-action pair) that is no key
\* of the matrix or function it reads
UnknownKeyQuery ==
    \/ call.op \in {"query_Pr", "query_successor"}
         /\ ~HasKey(state_transition_matrix, <<call.args[1], call.args[2]>>)
    \/ call.op = "get_expected_reward" /\ ~HasKey(reward_function, call.args[1])
    \/ call.op = "get_state_transition_reward" /\ ~HasKey(reward_matrix, call.args[1])
    \/ call.op = "get_value" /\ ~HasKey(value_function, call.args[1])

\* C5: a query about an unknown state or state-action pair gives None and
\* raises nothing.
C5_UnknownQueryGivesNone == UnknownKeyQuery => result.tag = "None"

\* --- the chain the raw MRP input describes
InputSucc(s) == IF s \in Keys(input) THEN {d \in DestStates : InputProb(s, d) # Zero} ELSE {}
\* absorbing: declared with self-transition probability 1, or never declared
\* as a source (no way out)
Absorbing(s) == s \notin Keys(input) \/ InputProb(s, s) = One
RECURSIVE ReachFrom(_)
ReachFrom(S) ==
    LET T == S \cup UNION {InputSucc(s) : s \in S}
    IN  IF T = S THEN S ELSE ReachFrom(T)
\* from every state, wherever the chain goes, an absorbing state stays
\* reachable: absorption has probability 1
AbsorptionCertain ==
    \A s \in ProcessStates : \A t \in ReachFrom({s}) :
        \E u \in ReachFrom({t}) : Absorbing(u)

SampleReturned == kind = "MRP" /\ call.op = "get_random_sample" /\ result.tag = "value"

\* C6 (its safety half): when absorption is certain, the sequence that
\* get_random_sample returns, started from a state of the process, ends in a
\* member of terminal_states.
C6_SampleEndsInTerminalStates ==
    (SampleReturned /\ AbsorptionCertain /\ result.val[1][1] \in ProcessStates) =>
        Last(result.val[1]) \in Range(terminal_states)

\* --- termination of the sampler under fair draws
\* the loop past the MaxSteps iterations that are recorded: the draws go on,
\* the locals that grow without bound are no longer followed
SampleLoopBeyond ==
    /\ pc = "sampling"
    /\ state \in Range(non_terminal_states)
    /\ ts = MaxSteps
    /\ state' \in Draws(state)
    /\ UNCHANGED <<kind, input, gamma, pc, raised, object, call, result, sample, g, ts>>

\* the draw at s gives d
DrawGives(s, d) == (SampleLoop \/ SampleLoopBeyond) /\ state = s /\ state' = d

\* every draw that is possible again and again is eventually made, and a
\* loop whose condition is false exits
FairNext == Next \/ SampleLoopBeyond
\* termination does not depend on the rewards, the discount or the encoding:
\* the MRPs of Init with reward 0 throughout, discount 1, shared encoding
FairInit ==
    /\ Init
    /\ kind = "MRP" /\ gamma = One
    /\ \A k \in Keys(input) : input.map[k].kind = "tuple" /\ input.map[k].r = Zero
FairSpec ==
    /\ FairInit /\ [][FairNext]_vars
    /\ \A s \in SourceStates : \A d \in DestStates : SF_vars(DrawGives(s, d))
    /\ WF_vars(SampleReturn)

\* when absorption is certain, every call of get_random_sample returns
SamplerTerminates == (pc = "sampling" /\ AbsorptionCertain) ~> (pc = "ready")
\* without that premise it need not
SamplerAlwaysTerminates == (pc = "sampling") ~> (pc = "ready")

\* C7: every state named only as a destination is in terminal_states,
\* exactly once (and in all_states of an MDP), so every successor of a stored
\* row is classified.
C7_ImplicitStatesAreTerminal ==
    Constructed =>
        /\ \A d \in ImplicitStates :
              /\ Cardinality({i \in 1..Len(terminal_states) : terminal_states[i] = d}) = 1
              /\ kind = "MDP" => d \in Range(all_states)
        /\ \A k \in Keys(state_transition_matrix) :
              DOMAIN state_transition_matrix.map[k]
                  \subseteq Range(terminal_states) \cup Range(non_terminal_states)

\* C8: terminal_states and non_terminal_states have no duplicates, share
\* no element, and together are exactly the classified state set (all_states
\* of an MDP, the declared states of an MRP).
C8_StatesPartitioned ==
    Constructed =>
        /\ NoDuplicates(terminal_states)
        /\ NoDuplicates(non_terminal_states)
        /\ Range(terminal_states) \cap Range(non_terminal_states) = {}
        /\ Range(terminal_states) \cup Range(non_terminal_states)
              = (IF kind = "MDP" THEN Range(all_states) ELSE DeclaredStates)
        /\ kind = "MDP" => NoDuplicates(all_states) /\ Range(all_states) = ProcessStates

\* an MDP with a non-terminal state, a declared terminal state and an
\* implicit one
C8_Witness ==
    /\ kind = "MDP" /\ Constructed
    /\ ImplicitStates # {}
    /\ Range(terminal_states) \cap DeclaredStates # {}
    /\ non_terminal_states # <<>>
    /\ Len(all_states) = 3

\* 1e-4, the tolerance of the Bellman equation
Tolerance == <<1, 10000>>
Close(x, y) == RLe(RAbs(RSub(x, y)), Tolerance)

C10_SampleWellFormed ==
    SampleReturned =>
        LET seq == result.val[1]
            n == Len(seq)
        IN  /\ n >= 1
            /\ \A i \in 1..(n - 1) :
                  /\ seq[i] \in Range(non_terminal_states)
                  /\ GetOr(state_transition_matrix.map[seq[i]], seq[i + 1], Zero) # Zero
            /\ seq[n] \notin Range(non_terminal_states)
            /\ seq[1] \in ProcessStates =>
                  seq[n] \in Range(terminal_states) \cup ImplicitStates
            /\ Cardinality({i \in 1..n : seq[i] = seq[n]}) = 1
            /\ result.val[2]
                  = RSum([i \in 1..(n - 1) |->
                             RMul(RPow(gamma, i - 1), reward_function.map[seq[i]])],
                         1..(n - 1))
            /\ seq[1] \in Range(terminal_states) => seq = <<seq[1]>> /\ result.val[2] = Zero

\* a discounted walk of three steps that revisits a state and earns reward
C10_Witness ==
    /\ SampleReturned /\ gamma # One
    /\ Len(result.val[1]) >= 4
    /\ result.val[1][1] = result.val[1][3]
    /\ reward_function.map[result.val[1][3]] # Zero
    /\ Last(result.val[1]) \in Range(terminal_states)

====
